---- MODULE Spec2Model ----
(***************************************************************************)
(* Model of the "Open in Terminal" plugin (src/main.ts): platform          *)
(* inference, the command builder, the settings fields and the             *)
(* open-terminal requests with their asynchronous exec callbacks.          *)
(* Strings are TLA+ strings; Len, SubSeq and \o act on them character by   *)
(* character.                                                              *)
(***************************************************************************)
EXTENDS Integers, Sequences, FiniteSets, TLC

VARIABLES
    platform,    \* os.platform() of the running host
    adapter,     \* this.app.vault.adapter: its kind and what getBasePath() does
    settings,    \* this.settings: [terminalBin, terminalArgs], both Option<string>
    saved,       \* what saveData() last persisted
    requests,    \* one record per open-terminal request, in the order issued
    call         \* direct call of a pure function: its inputs and its result

vars == <<platform, adapter, settings, saved, requests, call>>

(***************************************************************************)
(* Bounds                                                                  *)
(***************************************************************************)
MaxRequests == 2

(***************************************************************************)
(* fp-ts Option and Either                                                 *)
(***************************************************************************)
none == [tag |-> "None"]
some(v) == [tag |-> "Some", value |-> v]
isSome(o) == o.tag = "Some"
getOrElse(o, d) == IF isSome(o) THEN o.value ELSE d

left(e) == [tag |-> "Left", left |-> e]
right(v) == [tag |-> "Right", right |-> v]
isRight(e) == e.tag = "Right"
isLeft(e) == e.tag = "Left"

(***************************************************************************)
(* JavaScript string primitives                                            *)
(***************************************************************************)
QUOTE == "\""
PLACEHOLDER == "{path}"

\* characters String.prototype.trim removes
WhiteSpace == {" ", "\t", "\n", "\r", "\f"}

CharAt(s, i) == SubSeq(s, i, i)

\* s has tok at index i (1-based)
HasAt(s, i, tok) ==
    /\ i >= 1
    /\ i + Len(tok) - 1 <= Len(s)
    /\ SubSeq(s, i, i + Len(tok) - 1) = tok

Contains(s, tok) == \E i \in 1..Len(s) : HasAt(s, i, tok)

Occurrences(s, tok) == {i \in 1..Len(s) : HasAt(s, i, tok)}

RECURSIVE trimStart(_)
trimStart(s) ==
    IF Len(s) > 0 /\ CharAt(s, 1) \in WhiteSpace
    THEN trimStart(SubSeq(s, 2, Len(s)))
    ELSE s

RECURSIVE trimEnd(_)
trimEnd(s) ==
    IF Len(s) > 0 /\ CharAt(s, Len(s)) \in WhiteSpace
    THEN trimEnd(SubSeq(s, 1, Len(s) - 1))
    ELSE s

\* String.prototype.trim
trim(s) == trimEnd(trimStart(s))

\* Array.prototype.join
RECURSIVE join(_, _)
join(args, sep) ==
    IF Len(args) = 0 THEN ""
    ELSE IF Len(args) = 1 THEN args[1]
    ELSE args[1] \o sep \o join(Tail(args), sep)

\* GetSubstitution of String.prototype.replace for a pattern without capture
\* groups: in the replacement text $$ is a dollar sign, $& the matched text,
\* $` the text before the match, $' the text after it; any other character,
\* a lone $ included, stands for itself.
RECURSIVE getSubstitution(_, _, _, _, _)
getSubstitution(matched, str, position, replacement, k) ==
    IF k > Len(replacement) THEN ""
    ELSE IF CharAt(replacement, k) = "$" /\ k < Len(replacement)
    THEN LET c == CharAt(replacement, k + 1)
             rest == getSubstitution(matched, str, position, replacement, k + 2)
         IN  IF c = "$" THEN "$" \o rest
             ELSE IF c = "&" THEN matched \o rest
             ELSE IF c = "`" THEN SubSeq(str, 1, position - 1) \o rest
             ELSE IF c = "'"
                  THEN SubSeq(str, position + Len(matched), Len(str)) \o rest
             ELSE "$" \o getSubstitution(matched, str, position, replacement, k + 1)
    ELSE CharAt(replacement, k)
             \o getSubstitution(matched, str, position, replacement, k + 1)

\* str.replace(/\{path\}/g, replacement), scanning from index i
RECURSIVE replaceFrom(_, _, _)
replaceFrom(str, i, replacement) ==
    IF i > Len(str) THEN ""
    ELSE IF HasAt(str, i, PLACEHOLDER)
    THEN getSubstitution(PLACEHOLDER, str, i, replacement, 1)
             \o replaceFrom(str, i + Len(PLACEHOLDER), replacement)
    ELSE CharAt(str, i) \o replaceFrom(str, i + 1, replacement)

replacePath(customArgs, quotedPath) == replaceFrom(customArgs, 1, quotedPath)

(***************************************************************************)
(* Platform inference and the command builder                              *)
(***************************************************************************)
DEFAULT_SETTINGS == [terminalBin |-> none, terminalArgs |-> none]

\* the three platforms the switch statements have a case for
RecognizedPlatforms == {"win32", "darwin", "linux"}

\* variant: the text is interpolated without the quotes
quote_bare(s) == s

\* `"${s}"`
quote(s) == QUOTE \o s \o QUOTE

\* variant: the records of the earlier draft of the plugin, with the
\* launcher folded into the binary and the error without the identifier
inferTerminalCommand_v0 ==
    CASE platform = "win32" ->
            right([binary |-> "start powershell.exe", args |-> <<>>])
      [] platform = "darwin" ->
            right([binary |-> "open", args |-> <<"-a", "Terminal">>])
      [] platform = "linux" ->
            right([binary |-> "gnome-terminal", args |-> <<"--working-directory">>])
      [] OTHER -> left("Unsupported platform")

inferTerminalCommand ==
    CASE platform = "win32" ->
            right([binary |-> "powershell.exe", args |-> <<"-noexit">>])
      [] platform = "darwin" ->
            right([binary |-> "Terminal", args |-> <<>>])
      [] platform = "linux" ->
            right([binary |-> "gnome-terminal", args |-> <<"--working-directory">>])
      [] OTHER -> left("Unsupported platform: " \o platform)

\* the switch of the no-custom-terminal branch
inferredCommand(termCmd, quotedPath) ==
    CASE platform = "win32" ->
            right("start /d " \o quotedPath \o " " \o termCmd.binary
                      \o " " \o join(termCmd.args, " "))
      [] platform = "darwin" ->
            right("open -a " \o termCmd.binary \o " " \o quotedPath)
      [] platform = "linux" ->
            right(termCmd.binary \o " " \o join(termCmd.args, " ")
                      \o "=" \o quotedPath)
      [] OTHER -> left("Unsupported platform")

\* variant: the last case serves every platform that is left
customDefaultCommand_anyPlatform(quotedTerminal, quotedPath) ==
    CASE platform = "win32" ->
            right("start /d " \o quotedPath \o " " \o quotedTerminal)
      [] platform = "darwin" ->
            right("open -a " \o quotedTerminal \o " " \o quotedPath)
      [] OTHER ->
            right(quotedTerminal \o " --working-directory=" \o quotedPath)

\* the switch of the custom-terminal branch, taken when no arguments are set
customDefaultCommand(quotedTerminal, quotedPath) ==
    CASE platform = "win32" ->
            right("start /d " \o quotedPath \o " " \o quotedTerminal)
      [] platform = "darwin" ->
            right("open -a " \o quotedTerminal \o " " \o quotedPath)
      [] platform = "linux" ->
            right(quotedTerminal \o " --working-directory=" \o quotedPath)
      [] OTHER -> left("Unsupported platform")

\* the custom-terminal branch
customCommand(customTerminal, terminalArgs, folderPath) ==
    LET quotedPath == quote(folderPath)
        quotedTerminal == quote(customTerminal)
        customArgs == getOrElse(terminalArgs, "")
        processedArgs == replacePath(customArgs, quotedPath)
    IN  IF trim(customArgs) # ""
        THEN right(quotedTerminal \o " " \o processedArgs)
        ELSE customDefaultCommand(quotedTerminal, quotedPath)

\* variant: arguments kept between calls, so that after an earlier request
\* the path is appended once more
createTerminalCommand_accumulating(prefs, folderPath) ==
    LET built == IF isSome(prefs.terminalBin)
                 THEN customCommand(prefs.terminalBin.value, prefs.terminalArgs,
                                    folderPath)
                 ELSE IF isLeft(inferTerminalCommand)
                 THEN left(inferTerminalCommand.left)
                 ELSE inferredCommand(inferTerminalCommand.right, quote(folderPath))
    IN  IF isRight(built) /\ requests # <<>>
        THEN right(built.right \o " " \o quote(folderPath))
        ELSE built

createTerminalCommand(prefs, folderPath) ==
    IF ~isSome(prefs.terminalBin)
    THEN LET inferred == inferTerminalCommand
         IN  IF isLeft(inferred) THEN left(inferred.left)
             ELSE inferredCommand(inferred.right, quote(folderPath))
    ELSE customCommand(prefs.terminalBin.value, prefs.terminalArgs, folderPath)

(***************************************************************************)
(* Direct calls of the two functions, inputs drawn in the initial state    *)
(***************************************************************************)
NoCall == [fn |-> "none"]

FnPlatforms == {"win32", "darwin", "linux", "freebsd", "sunos"}

\* terminalBin is written by the settings field only, which stores none for a
\* blank text and the trimmed text otherwise
FnBins == {none, some("iTerm"), some("my term")}

FnArgs == {none, some(""), some(" "), some(" \t"),
           some("-e \"ls {path}\""), some("{path} --x={path}"),
           some(" -d {path} "), some("--new")}

FnPaths == {"/home/user/My Notes", "/v", "/v/a\"b", "/v/$&", "/v/$$x"}

IdleAdapter == [kind |-> "other", basePath |-> "", throws |-> FALSE]

InitFn ==
    /\ platform \in FnPlatforms
    /\ settings \in [terminalBin : FnBins, terminalArgs : FnArgs]
    /\ saved = settings
    /\ adapter = IdleAdapter
    /\ requests = <<>>
    /\ call = NoCall

CallInfer ==
    /\ call' = [fn |-> "inferTerminalCommand", result |-> inferTerminalCommand]
    /\ UNCHANGED <<platform, adapter, settings, saved, requests>>

CallCreate(folderPath) ==
    /\ call' = [fn |-> "createTerminalCommand", folderPath |-> folderPath,
                result |-> createTerminalCommand(settings, folderPath)]
    /\ UNCHANGED <<platform, adapter, settings, saved, requests>>

NextFn ==
    \/ CallInfer
    \/ \E folderPath \in FnPaths : CallCreate(folderPath)

SpecFn == InitFn /\ [][NextFn]_vars

Built == call.fn = "createTerminalCommand"

CountChar(s, c) == Cardinality({i \in 1..Len(s) : CharAt(s, i) = c})

(***************************************************************************)
(* The plugin: settings fields, open-terminal requests, exec callbacks     *)
(***************************************************************************)
\* path.normalize restricted to separators: on win32 a slash is a separator
\* too and is written as a backslash; a run of separators becomes one.  The
\* folder paths drawn below have no "." or ".." segment.
IsSep(c) == c = "/" \/ (platform = "win32" /\ c = "\\")
Sep == IF platform = "win32" THEN "\\" ELSE "/"

RECURSIVE normalize(_, _)
normalize(p, i) ==
    IF i > Len(p) THEN ""
    ELSE IF IsSep(CharAt(p, i))
    THEN IF i > 1 /\ IsSep(CharAt(p, i - 1))
         THEN normalize(p, i + 1)
         ELSE Sep \o normalize(p, i + 1)
    ELSE CharAt(p, i) \o normalize(p, i + 1)

\* path.join(vaultPath, folder.path)
pathJoin(a, b) ==
    IF a = "" THEN (IF b = "" THEN "." ELSE normalize(b, 1))
    ELSE IF b = "" THEN normalize(a, 1)
    ELSE normalize(a \o Sep \o b, 1)

\* variant: the text is stored as typed
fieldValue_raw(value) == some(value)

\* value.trim() === '' ? none : some(value.trim())
fieldValue(value) == IF trim(value) = "" THEN none ELSE some(trim(value))

NotBuilt == [tag |-> "NotBuilt"]

log(level, text) == [level |-> level, text |-> text]

\* a request that has not reached openTerminalInPath
NewRequest(source) ==
    [source |-> source, folderPath |-> "", prefs |-> settings,
     result |-> NotBuilt, exec |-> "none", notices |-> <<>>, logs |-> <<>>]

\* variant: a command that is already running is not launched again
openTerminalInPath_dedup(source, folderPath) ==
    LET result == createTerminalCommand(settings, folderPath)
        running == \E i \in 1..Len(requests) :
                       /\ requests[i].exec = "pending"
                       /\ requests[i].result = result
    IN  [NewRequest(source) EXCEPT
            !.folderPath = folderPath,
            !.result = result,
            !.logs = <<log("log", "Opening terminal in path:")>>,
            !.exec = IF isRight(result) /\ ~running THEN "pending" ELSE "none"]

\* variant: the error branch notifies and the command is launched all the same
openTerminalInPath_launchAnyway(source, folderPath) ==
    LET result == createTerminalCommand(settings, folderPath)
        opening == <<log("log", "Opening terminal in path:")>>
    IN  IF isLeft(result)
        THEN [NewRequest(source) EXCEPT
                !.folderPath = folderPath,
                !.result = result,
                !.logs = opening \o <<log("error", "Error creating terminal command:"),
                                      log("log", "Executing command:")>>,
                !.notices = <<"Failed to create terminal command: " \o result.left>>,
                !.exec = "pending"]
        ELSE [NewRequest(source) EXCEPT
                !.folderPath = folderPath,
                !.result = result,
                !.logs = opening \o <<log("log", "Executing command:")>>,
                !.exec = "pending"]

\* openTerminalInPath up to the return of exec(): the record of the request
openTerminalInPath(source, folderPath) ==
    LET result == createTerminalCommand(settings, folderPath)
        opening == <<log("log", "Opening terminal in path:")>>
        warned == IF isSome(settings.terminalBin)
                  THEN opening \o <<log("warn", "Using custom terminal:")>>
                  ELSE opening
    IN  IF isLeft(result)
        THEN [NewRequest(source) EXCEPT
                !.folderPath = folderPath,
                !.result = result,
                !.logs = warned \o <<log("error", "Error creating terminal command:")>>,
                !.notices = <<"Failed to create terminal command: " \o result.left>>]
        ELSE [NewRequest(source) EXCEPT
                !.folderPath = folderPath,
                !.result = result,
                !.logs = warned \o <<log("log", "Executing command:")>>,
                !.exec = "pending"]

\* variant: the error branch falls through to the success notice
execCallback_fallthrough(req, error, stdout, stderr) ==
    [req EXCEPT
        !.exec = IF isSome(error) THEN "failed" ELSE "succeeded",
        !.notices = IF isSome(error)
                    THEN @ \o <<"Failed to open terminal: " \o error.value,
                                "Terminal opened successfully">>
                    ELSE @ \o <<"Terminal opened successfully">>]

\* the callback handed to exec()
execCallback(req, error, stdout, stderr) ==
    IF isSome(error)
    THEN [req EXCEPT
            !.exec = "failed",
            !.logs = @ \o <<log("error", "Error opening terminal:"),
                            log("error", "Command that failed:")>>
                       \o (IF stderr # "" THEN <<log("error", "stderr:")>> ELSE <<>>),
            !.notices = @ \o <<"Failed to open terminal: " \o error.value>>]
    ELSE [req EXCEPT
            !.exec = "succeeded",
            !.logs = @ \o <<log("log", "Terminal opened successfully")>>
                       \o (IF stdout # "" THEN <<log("log", "stdout:")>> ELSE <<>>),
            !.notices = @ \o <<"Terminal opened successfully">>]

\* inputs
\* two platforms the switches know, one they do not (the darwin branches
\* are exercised by the direct calls under SpecFn)
Platforms == {"win32", "linux", "freebsd"}

Adapters ==
    {[kind |-> "fs", basePath |-> "/home/user", throws |-> FALSE],
     [kind |-> "fs", basePath |-> "", throws |-> FALSE],
     [kind |-> "fs", basePath |-> "/home/user", throws |-> TRUE],
     [kind |-> "other", basePath |-> "", throws |-> FALSE]}

BinInputs == {"", " \t", " kitty "}
ArgsInputs == {"", " ", " -d {path} "}
Folders == {"My Notes"}

ExecOutcomes ==
    {[error |-> none, stdout |-> "", stderr |-> ""],
     [error |-> some("Command failed"), stdout |-> "", stderr |-> "not found"]}

Init ==
    /\ platform \in Platforms
    /\ adapter \in Adapters
    /\ settings = DEFAULT_SETTINGS
    /\ saved = DEFAULT_SETTINGS
    /\ requests = <<>>
    /\ call = NoCall

\* onChange of the "Custom Terminal Path" field with the text value,
\* saveSettings included
OnChangeBin(value) ==
    /\ settings' = [settings EXCEPT !.terminalBin = fieldValue(value)]
    /\ saved' = settings'
    /\ UNCHANGED <<platform, adapter, requests, call>>

\* onChange of the "Custom Terminal Arguments" field with the text value,
\* saveSettings included
OnChangeArgs(value) ==
    /\ settings' = [settings EXCEPT !.terminalArgs = fieldValue(value)]
    /\ saved' = settings'
    /\ UNCHANGED <<platform, adapter, requests, call>>

\* click on "Open in Terminal" in a folder's menu: openTerminalInFolder
OpenTerminalInFolder(folder) ==
    /\ Len(requests) < MaxRequests
    /\ requests' = Append(requests,
          IF adapter.kind # "fs" THEN NewRequest("folder")
          ELSE IF adapter.throws
          THEN [NewRequest("folder") EXCEPT
                  !.logs = <<log("error", "Error getting folder path:")>>,
                  !.notices = <<"Could not determine folder path.">>]
          ELSE IF adapter.basePath = ""
          THEN [NewRequest("folder") EXCEPT
                  !.notices = <<"Could not determine vault path.">>]
          ELSE openTerminalInPath("folder", pathJoin(adapter.basePath, folder)))
    /\ UNCHANGED <<platform, adapter, settings, saved, call>>

\* the command "Open Terminal in Vault Root"
OpenTerminalInVaultRoot ==
    /\ Len(requests) < MaxRequests
    /\ requests' = Append(requests,
          IF adapter.kind # "fs" THEN NewRequest("vault")
          ELSE IF adapter.throws
          THEN [NewRequest("vault") EXCEPT
                  !.logs = <<log("error", "Error getting vault path:")>>,
                  !.notices = <<"Could not determine vault path.">>]
          ELSE IF adapter.basePath = ""
          THEN [NewRequest("vault") EXCEPT
                  !.notices = <<"Could not determine vault path.">>]
          ELSE openTerminalInPath("vault", adapter.basePath))
    /\ UNCHANGED <<platform, adapter, settings, saved, call>>

\* the child process of request i has ended: exec() calls the callback back
ExecCallback(i, outcome) ==
    /\ i \in 1..Len(requests)
    /\ requests[i].exec = "pending"
    /\ requests' = [requests EXCEPT
          ![i] = execCallback(@, outcome.error, outcome.stdout, outcome.stderr)]
    /\ UNCHANGED <<platform, adapter, settings, saved, call>>

Next ==
    \/ \E value \in BinInputs : OnChangeBin(value)
    \/ \E value \in ArgsInputs : OnChangeArgs(value)
    \/ \E folder \in Folders : OpenTerminalInFolder(folder)
    \/ OpenTerminalInVaultRoot
    \/ \E i \in 1..MaxRequests, outcome \in ExecOutcomes : ExecCallback(i, outcome)

Spec == Init /\ [][Next]_vars

\* a launched command ends, and exec() then calls its callback
LiveSpec ==
    /\ Spec
    /\ \A i \in 1..MaxRequests :
           WF_vars(\E outcome \in ExecOutcomes : ExecCallback(i, outcome))

(***************************************************************************)
(* Vocabulary of the claims                                                *)
(***************************************************************************)
\* the binary name each recognized platform is expected to infer
ExpectedBinary(p) ==
    CASE p = "win32" -> "powershell.exe"
      [] p = "darwin" -> "Terminal"
      [] p = "linux" -> "gnome-terminal"

\* text with every occurrence of tok replaced by the text repl, taken literally
RECURSIVE SubstituteAll(_, _, _, _)
SubstituteAll(text, i, tok, repl) ==
    IF i > Len(text) THEN ""
    ELSE IF HasAt(text, i, tok)
    THEN repl \o SubstituteAll(text, i + Len(tok), tok, repl)
    ELSE CharAt(text, i) \o SubstituteAll(text, i + 1, tok, repl)

\* text with its first occurrence of tok replaced by the text repl
SubstituteFirst(text, tok, repl) ==
    IF ~Contains(text, tok) THEN text
    ELSE LET i == CHOOSE k \in Occurrences(text, tok) :
                      \A m \in Occurrences(text, tok) : k <= m
         IN  SubSeq(text, 1, i - 1) \o repl
                 \o SubSeq(text, i + Len(tok), Len(text))

IsBlank(s) == trim(s) = ""

CustomBinary == isSome(settings.terminalBin)
TemplateText == getOrElse(settings.terminalArgs, "")

(***************************************************************************)
(* C1                                                                      *)
(***************************************************************************)
\* C1: on a recognized platform with no custom binary, createTerminalCommand
\* succeeds; the command contains the folder path between two double quotes,
\* has no double quote beyond that pair and those of the path itself, and
\* contains the platform's inferred binary name; on linux with
\* /home/user/My Notes it is gnome-terminal --working-directory="/home/user/My Notes".
C1_InferredCommandQuotesPath ==
    (Built /\ platform \in RecognizedPlatforms /\ ~CustomBinary) =>
        /\ isRight(call.result)
        /\ Contains(call.result.right, QUOTE \o call.folderPath \o QUOTE)
        /\ CountChar(call.result.right, QUOTE) = CountChar(call.folderPath, QUOTE) + 2
        /\ Contains(call.result.right, ExpectedBinary(platform))
        /\ (platform = "linux" /\ call.folderPath = "/home/user/My Notes" =>
                call.result.right
                    = "gnome-terminal --working-directory=\"/home/user/My Notes\"")

C1_Witness ==
    /\ Built
    /\ platform = "linux"
    /\ ~CustomBinary
    /\ call.folderPath = "/home/user/My Notes"
    /\ call.result = right("gnome-terminal --working-directory=\"/home/user/My Notes\"")

(***************************************************************************)
(* C2                                                                      *)
(***************************************************************************)
\* C2: with a custom binary B and a non-blank template T, the command is
\* "B", one space, then T with every {path} replaced by the double-quoted
\* folder path and every other character unchanged, so that no {path} of T
\* is left in the output.
C2_TemplateReplacedLiterally ==
    (Built /\ CustomBinary /\ ~IsBlank(TemplateText)) =>
        /\ call.result
             = right(QUOTE \o settings.terminalBin.value \o QUOTE \o " "
                       \o SubstituteAll(TemplateText, 1, PLACEHOLDER,
                                        QUOTE \o call.folderPath \o QUOTE))
        /\ (~Contains(call.folderPath, PLACEHOLDER) =>
                ~Contains(call.result.right, PLACEHOLDER))

\* the scenario of C2 that the code does meet: iTerm, -e "ls {path}"
C2_Scenario ==
    (/\ Built
     /\ settings = [terminalBin |-> some("iTerm"),
                    terminalArgs |-> some("-e \"ls {path}\"")]
     /\ call.folderPath = "/home/user/My Notes") =>
        call.result = right("\"iTerm\" -e \"ls \"/home/user/My Notes\"\"")

(***************************************************************************)
(* C3                                                                      *)
(***************************************************************************)
\* C3: with a custom binary B and an absent or blank template, on a
\* recognized platform the command is the no-custom-binary command for that
\* platform and path, default argument tokens included, with "B" where the
\* inferred binary stood.
C3_DefaultShapeWithCustomBinary ==
    (Built /\ CustomBinary /\ IsBlank(TemplateText)
           /\ platform \in RecognizedPlatforms) =>
        call.result
          = right(SubstituteFirst(
                      createTerminalCommand(DEFAULT_SETTINGS, call.folderPath).right,
                      ExpectedBinary(platform),
                      QUOTE \o settings.terminalBin.value \o QUOTE))

\* what holds of C3: the shapes agree on macOS and linux
C3_ShapeOffWindows ==
    platform # "win32" => C3_DefaultShapeWithCustomBinary

Inferred == call.fn = "inferTerminalCommand"

\* C6: inferTerminalCommand returns PowerShell with the one flag -noexit on
\* windows, Terminal with no arguments on macOS, a terminal emulator with the
\* one flag --working-directory on linux, and for any other identifier an
\* error that carries the identifier, with no binary or arguments beside it.
C6_InferTerminal ==
    Inferred =>
        CASE platform = "win32" ->
                /\ isRight(call.result)
                /\ call.result.right.binary = "powershell.exe"
                /\ call.result.right.args = <<"-noexit">>
          [] platform = "darwin" ->
                /\ isRight(call.result)
                /\ call.result.right.binary = "Terminal"
                /\ call.result.right.args = <<>>
          [] platform = "linux" ->
                /\ isRight(call.result)
                /\ call.result.right.binary # ""
                /\ call.result.right.args = <<"--working-directory">>
          [] OTHER ->
                /\ isLeft(call.result)
                /\ DOMAIN call.result = {"tag", "left"}
                /\ Contains(call.result.left, platform)

C6_Witness ==
    /\ Inferred
    /\ platform = "sunos"
    /\ call.result = left("Unsupported platform: sunos")

(***************************************************************************)
(* C5                                                                      *)
(***************************************************************************)
\* folder paths and blank texts the equalities of C5 are taken over
ProbePaths == {"/home/user/My Notes"}
BlankTexts == {"", " ", "\t\n"}

Ended(r) == r.exec # "pending"
Succeeded(r) == r.exec = "succeeded"
HasErrorLog(r) == \E k \in 1..Len(r.logs) : r.logs[k].level = "error"

\* C7: every request that ended without success has a notification and a
\* diagnostic log entry, so that every ended request has a notification.
C7_FailuresNotifiedAndLogged ==
    \A i \in 1..Len(requests) :
        (Ended(requests[i]) /\ ~Succeeded(requests[i])) =>
            /\ Len(requests[i].notices) >= 1
            /\ HasErrorLog(requests[i])

\* what holds of C7: the failures inside openTerminalInPath (command build
\* error, process launch error) are notified and logged
C7_BuildAndLaunchFailures ==
    \A i \in 1..Len(requests) :
        (requests[i].result # NotBuilt /\ Ended(requests[i])
              /\ ~Succeeded(requests[i])) =>
            /\ Len(requests[i].notices) = 1
            /\ HasErrorLog(requests[i])

(***************************************************************************)
(* C8                                                                      *)
(***************************************************************************)
OutcomeNotices(r) ==
    {k \in 1..Len(r.notices) :
        \/ r.notices[k] = "Terminal opened successfully"
        \/ HasAt(r.notices[k], 1, "Failed to open terminal: ")}

Reported(r) == r.exec \in {"succeeded", "failed"}

\* no outcome while the launch has only returned; one outcome, of the kind
\* the callback was given, once it has run
OneOutcome(r) ==
    /\ r.exec = "pending" => OutcomeNotices(r) = {}
    /\ Reported(r) => Cardinality(OutcomeNotices(r)) = 1
    /\ r.exec = "succeeded" =>
           r.notices[Len(r.notices)] = "Terminal opened successfully"
    /\ r.exec = "failed" =>
           HasAt(r.notices[Len(r.notices)], 1, "Failed to open terminal: ")

\* C8: a command handed to exec has no outcome reported when exec returns,
\* gets exactly one outcome (success or failure, not both) in a later step,
\* keeps it unchanged from then on, and does eventually get it.
C8_ExactlyOneOutcome ==
    /\ [](\A i \in 1..Len(requests) : OneOutcome(requests[i]))
    /\ [][\A i \in 1..Len(requests) :
              Reported(requests[i]) => requests'[i] = requests[i]]_vars
    /\ \A i \in 1..MaxRequests :
           (Len(requests) >= i /\ requests[i].exec = "pending")
               ~> (Len(requests) >= i /\ Reported(requests[i]))

C8_Witness ==
    /\ Len(requests) = 2
    /\ requests[1].exec = "failed"
    /\ requests[1].notices = <<"Failed to open terminal: Command failed">>
    /\ requests[2].exec = "succeeded"
    /\ requests[2].notices = <<"Terminal opened successfully">>

(***************************************************************************)
(* C9                                                                      *)
(***************************************************************************)
\* C9: every request whose command was built has a process of its own,
\* also when a request for the same folder is still pending; a pending
\* request never disables a further request; the callback of every pending
\* request can run next, whatever the order of the requests; and a callback
\* changes the request it belongs to and no other.
C9_IndependentRequests ==
    /\ [](\A i \in 1..Len(requests) :
              /\ isRight(requests[i].result) => requests[i].exec # "none"
              /\ requests[i].exec = "pending" =>
                     ENABLED (\E outcome \in ExecOutcomes : ExecCallback(i, outcome)))
    /\ [](Len(requests) < MaxRequests =>
              /\ ENABLED OpenTerminalInVaultRoot
              /\ \A folder \in Folders : ENABLED OpenTerminalInFolder(folder))
    /\ [][\A i \in 1..Len(requests) :
              (requests[i].exec = "pending" /\ Reported(requests'[i])) =>
                  \A j \in 1..Len(requests) : j # i => requests'[j] = requests[j]]_vars

\* two requests for one folder, the second issued while the first was
\* pending, the second completed first
C9_Witness ==
    /\ Len(requests) = 2
    /\ requests[1].folderPath = requests[2].folderPath
    /\ requests[1].prefs = requests[2].prefs
    /\ requests[1].exec = "pending"
    /\ requests[2].exec = "succeeded"

BuildFailedNotices(r) ==
    {k \in 1..Len(r.notices) :
        HasAt(r.notices[k], 1, "Failed to create terminal command: ")}

\* C11: a request whose command build returned an error has, in every state
\* from then on, no process launched for it (exec was not called, so no
\* callback is pending or has run), exactly one "Failed to create terminal
\* command" notification, carrying the error, and no "Terminal opened
\* successfully" notification.
C11_BuildErrorLaunchesNothing ==
    \A i \in 1..Len(requests) :
        isLeft(requests[i].result) =>
            /\ requests[i].exec = "none"
            /\ Cardinality(BuildFailedNotices(requests[i])) = 1
            /\ requests[i].notices
                 = <<"Failed to create terminal command: " \o requests[i].result.left>>
            /\ \A k \in 1..Len(requests[i].notices) :
                   requests[i].notices[k] # "Terminal opened successfully"

\* a build error on freebsd, then a custom command launched and completed
\* while the failed request stayed as it was
C11_Witness ==
    /\ platform = "freebsd"
    /\ Len(requests) = 2
    /\ requests[1].result = left("Unsupported platform: freebsd")
    /\ requests[1].exec = "none"
    /\ requests[1].notices
         = <<"Failed to create terminal command: Unsupported platform: freebsd">>
    /\ isRight(requests[2].result)
    /\ requests[2].exec = "succeeded"

====
